---- MODULE Spec2Model ----
(***************************************************************************)
(* Model of loadOBJ (src/main.cpp): the line-oriented OBJ reader that      *)
(* fills Mesh.vertices, Mesh.indices and Mesh.edgeIndices.                 *)
(*                                                                         *)
(* Text is modelled as text: a line is a sequence of one-character         *)
(* strings, and the prefix test, the whitespace tokenizer, find('/'),      *)
(* substr, std::stoul and the float extraction work on the characters.     *)
(*                                                                         *)
(* unsigned int values are held as their 32-bit pattern read as a signed   *)
(* integer: 0 .. 2^31-1 stand for themselves and a negative k stands for   *)
(* 2^32 + k (so -1 is 0xFFFFFFFF).  Subtraction is then plain subtraction  *)
(* and only the comparison (U32Less) has to know about the encoding.       *)
(***************************************************************************)
EXTENDS Integers, Sequences, FiniteSets

\* Longest input file, in lines.
MaxLines == 3

(***************************************************************************)
(* Character-level helpers: std::string and std::istringstream             *)
(***************************************************************************)

DigitChars == <<"0", "1", "2", "3", "4", "5", "6", "7", "8", "9">>

IsDigit(c) == \E i \in 1..10 : DigitChars[i] = c

DigitVal(c) == (CHOOSE i \in 1..10 : DigitChars[i] = c) - 1

IsSpace(c) == c = " "

\* std::string::npos
NPOS == -1

\* s.substr(pos, n), pos counted from 0
Substr(s, pos, n) ==
    SubSeq(s, pos + 1, IF pos + n < Len(s) THEN pos + n ELSE Len(s))

\* s.substr(pos)
SubstrFrom(s, pos) == SubSeq(s, pos + 1, Len(s))

\* s.find(c): position of the first c counted from 0, or npos
Find(s, c) ==
    IF \E i \in 1..Len(s) : s[i] = c
    THEN (CHOOSE i \in 1..Len(s) : s[i] = c /\ \A j \in 1..(i - 1) : s[j] # c) - 1
    ELSE NPOS

RECURSIVE SkipSpace(_)
SkipSpace(s) ==
    IF s # <<>> /\ IsSpace(Head(s)) THEN SkipSpace(Tail(s)) ELSE s

RECURSIVE TakeWord(_)
TakeWord(s) ==
    IF s = <<>> \/ IsSpace(Head(s)) THEN <<>>
    ELSE <<Head(s)>> \o TakeWord(Tail(s))

\* while (ss >> token): the whitespace-separated words of s, in order
RECURSIVE ReadTokens(_)
ReadTokens(s) ==
    LET t == SkipSpace(s) IN
    IF t = <<>> THEN <<>>
    ELSE LET w == TakeWord(t) IN
         <<w>> \o ReadTokens(SubstrFrom(t, Len(w)))

RECURSIVE DigitRun(_)
DigitRun(s) ==
    IF s # <<>> /\ IsDigit(Head(s)) THEN <<Head(s)>> \o DigitRun(Tail(s))
    ELSE <<>>

RECURSIVE Decimal(_)
Decimal(ds) ==
    IF ds = <<>> THEN 0
    ELSE 10 * Decimal(SubSeq(ds, 1, Len(ds) - 1)) + DigitVal(ds[Len(ds)])

HasSign(t) == t # <<>> /\ Head(t) \in {"-", "+"}

\* std::stoul(str): leading whitespace, an optional sign, then the longest
\* run of digits; anything after the digits is left alone.  No digit at all
\* throws std::invalid_argument (ok = FALSE).
Stoul(str) ==
    LET t    == SkipSpace(str)
        body == IF HasSign(t) THEN Tail(t) ELSE t
        ds   == DigitRun(body)
    IN  IF ds = <<>> THEN [ok |-> FALSE, val |-> 0]
        ELSE [ok |-> TRUE,
              val |-> IF HasSign(t) /\ Head(t) = "-" THEN 0 - Decimal(ds)
                      ELSE Decimal(ds)]

\* unsigned a < b on the 32-bit patterns
U32Less(a, b) == IF (a < 0) = (b < 0) THEN a < b ELSE b < 0

(***************************************************************************)
(* The "v " branch                                                         *)
(***************************************************************************)

\* ss >> f for a float f whose present content is cur.  A stream that has
\* already failed leaves f alone; so does a stream that runs out of
\* characters while skipping whitespace (the sentry fails).  A word that does
\* not start a number stores 0 and sets failbit.  The literals of the model
\* are integers: an optional sign and digits.
ExtractFloat(st, cur) ==
    IF ~st.good THEN [st |-> st, val |-> cur]
    ELSE LET t == SkipSpace(st.rest) IN
         IF t = <<>> THEN [st |-> [rest |-> t, good |-> FALSE], val |-> cur]
         ELSE LET body == IF HasSign(t) THEN Tail(t) ELSE t
                  ds   == DigitRun(body)
              IN  IF ds = <<>>
                  THEN [st |-> [rest |-> t, good |-> FALSE], val |-> 0]
                  ELSE [st |-> [rest |-> SubstrFrom(body, Len(ds)), good |-> TRUE],
                        val |-> IF Head(t) = "-" THEN 0 - Decimal(ds)
                                ELSE Decimal(ds)]

\* float x, y, z; ss >> x >> y >> z;  u is what the three uninitialized
\* floats happen to hold before the extraction.
ParseVertex(rest, u) ==
    LET x == ExtractFloat([rest |-> rest, good |-> TRUE], u[1])
        y == ExtractFloat(x.st, u[2])
        z == ExtractFloat(y.st, u[3])
    IN  <<x.val, y.val, z.val>>

(***************************************************************************)
(* The "f " branch                                                         *)
(***************************************************************************)

\* the part of a face token that is converted: up to the first '/'
TokenTextAfterSlash(token) ==
    LET pos == Find(token, "/") IN
    IF pos # NPOS THEN SubstrFrom(token, pos + 1) ELSE token

TokenText(token) ==
    LET pos == Find(token, "/") IN
    IF pos # NPOS THEN Substr(token, 0, pos) ELSE token

\* face.push_back(std::stoul(token) - 1) for every token of the line.
\* ok is FALSE when some std::stoul throws.
ParseFace(rest) ==
    LET toks == ReadTokens(rest)
        conv == [i \in 1..Len(toks) |-> Stoul(TokenText(toks[i]))]
    IN  [ok   |-> \A i \in 1..Len(toks) : conv[i].ok,
         face |-> [i \in 1..Len(toks) |-> conv[i].val - 1]]

\* the triple a face appends to mesh.indices
EmitsTriangleBug(face) == Len(face) = 3

EmitsTriangle(face) == Len(face) >= 3

FaceTriangle(face) ==
    IF EmitsTriangle(face) THEN <<face[1], face[2], face[3]>> ELSE <<>>

\* if (a > b) std::swap(a, b);
EdgeOfNoSwap(a, b) == <<a, b>>

EdgeOf(a, b) == IF U32Less(b, a) THEN <<b, a>> ELSE <<a, b>>

\* std::set<std::pair<unsigned, unsigned>> as the ascending sequence of its
\* members; operator< of std::pair is lexicographic
PairLess(e, f) ==
    U32Less(e[1], f[1]) \/ (e[1] = f[1] /\ U32Less(e[2], f[2]))

SetInsertUnordered(s, e) ==
    IF \E i \in 1..Len(s) : s[i] = e THEN s ELSE Append(s, e)

SetInsert(s, e) ==
    IF \E i \in 1..Len(s) : s[i] = e THEN s
    ELSE LET k == Cardinality({i \in 1..Len(s) : PairLess(s[i], e)}) IN
         SubSeq(s, 1, k) \o <<e>> \o SubSeq(s, k + 1, Len(s))

\* number of iterations of the edge loop
EdgeLoopBoundNoWrap(face) == Len(face) - 1

EdgeLoopBound(face) == Len(face)

\* for (i = 0; i < face.size(); i++) edges.insert(min/max of face[i],
\* face[(i + 1) % face.size()]), from iteration i on (i counted from 0)
RECURSIVE InsertFaceEdges(_, _, _)
InsertFaceEdges(edgeSet, face, i) ==
    IF i >= EdgeLoopBound(face) THEN edgeSet
    ELSE InsertFaceEdges(
             SetInsert(edgeSet, EdgeOf(face[i + 1], face[((i + 1) % Len(face)) + 1])),
             face, i + 1)

\* for (auto& edge : edges) push first, push second
Flatten(edgeSet) ==
    [k \in 1..(2 * Len(edgeSet)) |-> edgeSet[(k + 1) \div 2][2 - (k % 2)]]

(***************************************************************************)
(* Line dispatch                                                           *)
(***************************************************************************)

IsVertexLineLoose(line) == line # <<>> /\ line[1] = "v"

IsVertexLine(line) == Substr(line, 0, 2) = <<"v", " ">>

IsFaceLine(line) == Substr(line, 0, 2) = <<"f", " ">>

\* mesh.color = glm::vec3(0.0f, 0.0f, 1.0f)
Blue == <<0, 0, 1>>

\* One iteration of the getline loop on the loader's locals
\* ld = [vertices, indices, edges, thrown].
ReadLine(ld, line, u) ==
    IF ld.thrown THEN ld
    ELSE IF IsVertexLine(line)
    THEN [ld EXCEPT !.vertices = @ \o ParseVertex(SubstrFrom(line, 2), u)]
    ELSE IF IsFaceLine(line)
    THEN LET p == ParseFace(SubstrFrom(line, 2)) IN
         IF ~p.ok THEN [ld EXCEPT !.thrown = TRUE]
         ELSE [ld EXCEPT !.indices = @ \o FaceTriangle(p.face),
                         !.edges = InsertFaceEdges(@, p.face, 0)]
    ELSE ld

\* the code after the loop: the Mesh that is returned
Finish(ld) ==
    [vertices    |-> ld.vertices,
     indices     |-> ld.indices,
     edgeIndices |-> Flatten(ld.edges),
     color       |-> Blue]

NewLoad == [vertices |-> <<>>, indices |-> <<>>, edges |-> <<>>, thrown |-> FALSE]

\* std::getline(file, line) delivers a line
GetLineOkIgnoringOpen(open, lines, n) == n < Len(lines)

GetLineOk(open, lines, n) == open /\ n < Len(lines)

\* what x, y and z hold when the k-th vertex line of a load is read, for a
\* load whose uninitialized floats are given by us (zeros past its end)
Held(us, k) == IF k <= Len(us) THEN us[k] ELSE <<0, 0, 0>>

RECURSIVE ReadAll(_, _, _, _)
ReadAll(ld, lines, n, us) ==
    IF n >= Len(lines) THEN ld
    ELSE ReadAll(ReadLine(ld, lines[n + 1],
                          Held(us, (Len(ld.vertices) \div 3) + 1)),
                 lines, n + 1, us)

\* loadOBJ on a file that opens, the uninitialized floats of its k-th vertex
\* line reading as us[k]: threw tells whether an exception left the
\* function, mesh is what it returns otherwise
LoadOBJ(lines, us) ==
    LET ld == ReadAll(NewLoad, lines, 0, us) IN
    [threw |-> ld.thrown, mesh |-> Finish(ld)]

(***************************************************************************)
(* Input files                                                             *)
(***************************************************************************)

\* decimal text of n >= 0
RECURSIVE Digits(_)
Digits(n) ==
    IF n < 10 THEN <<DigitChars[n + 1]>>
    ELSE Digits(n \div 10) \o <<DigitChars[(n % 10) + 1]>>

\* the ways of writing position index p in a face token
Styles == {"p", "p/t", "p/t/n", "p//n"}

TokenOf(p, style) ==
    Digits(p) \o
    (CASE style = "p"     -> <<>>
       [] style = "p/t"   -> <<"/", "5">>
       [] style = "p/t/n" -> <<"/", "5", "/", "7">>
       [] style = "p//n"  -> <<"/", "/", "7">>)

RECURSIVE JoinTokens(_, _)
JoinTokens(nums, styles) ==
    IF nums = <<>> THEN <<>>
    ELSE (IF Len(nums) > 1
          THEN JoinTokens(SubSeq(nums, 1, Len(nums) - 1),
                          SubSeq(styles, 1, Len(nums) - 1)) \o <<" ">>
          ELSE <<>>)
         \o TokenOf(nums[Len(nums)], styles[Len(nums)])

\* the face line that lists the 1-based indices nums, written in styles
FaceText(nums, styles) == <<"f", " ">> \o JoinTokens(nums, styles)

Bare(nums) == [i \in 1..Len(nums) |-> "p"]

WellFormedFace(nums, styles) ==
    [text |-> FaceText(nums, styles), kind |-> "f", nums |-> nums,
     styles |-> styles, malformed |-> FALSE]

OtherLine(text) ==
    [text |-> text, kind |-> "other", nums |-> <<>>, styles |-> <<>>,
     malformed |-> FALSE]

\* The lines an input file is made of, each with what it was written to say.
\* Index 0 is text std::stoul converts; the index stored for it is 0 - 1 in
\* unsigned arithmetic.
Catalog ==
    { [text |-> <<"v", " ", "1", " ", "0", " ", "2">>, kind |-> "v",
       nums |-> <<>>, styles |-> <<>>, malformed |-> FALSE],
      [text |-> <<"v", " ", "1", " ", "x">>, kind |-> "v",
       nums |-> <<>>, styles |-> <<>>, malformed |-> TRUE],
      WellFormedFace(<<1, 2, 3>>, Bare(<<1, 2, 3>>)),
      WellFormedFace(<<2, 1, 4>>, Bare(<<2, 1, 4>>)),
      WellFormedFace(<<1, 2, 3, 4>>, <<"p/t/n", "p//n", "p/t", "p">>),
      WellFormedFace(<<4, 5, 6>>, Bare(<<4, 5, 6>>)),
      WellFormedFace(<<1, 2>>, Bare(<<1, 2>>)),
      WellFormedFace(<<1>>, Bare(<<1>>)),
      WellFormedFace(<<0, 1, 2>>, Bare(<<0, 1, 2>>)),
      [text |-> <<"f", " ", "1", " ", "x", " ", "3">>, kind |-> "f",
       nums |-> <<>>, styles |-> <<>>, malformed |-> TRUE],
      OtherLine(<<"v", "n", " ", "0", " ", "0", " ", "1">>),
      OtherLine(<<" ", "f", " ", "1", " ", "2", " ", "3">>) }

CatalogTexts == {d.text : d \in Catalog}

DescOf(line) == CHOOSE d \in Catalog : d.text = line

Files == UNION {[1..n -> CatalogTexts] : n \in 0..MaxLines}

\* what an uninitialized float may hold
UninitFloats == {-9, 9}

(***************************************************************************)
(* loadOBJ as a state machine: one step per line read                      *)
(***************************************************************************)

VARIABLES
    file,       \* the lines of the file at path
    fileOpen,   \* whether std::ifstream file(path) opened it
    pos,        \* number of lines std::getline has delivered
    mesh,       \* Mesh mesh
    edges,      \* std::set<std::pair<unsigned, unsigned>> edges
    pc,         \* "reading", "returned" or "thrown"
    ret         \* <<>> until loadOBJ returns, then <<the Mesh returned>>

vars == <<file, fileOpen, pos, mesh, edges, pc, ret>>

\* mesh.color is indeterminate until it is assigned and is not read before;
\* <<>> stands for that
Init ==
    /\ file \in Files
    /\ fileOpen \in BOOLEAN
    /\ pos = 0
    /\ mesh = [vertices |-> <<>>, indices |-> <<>>, edgeIndices |-> <<>>,
               color |-> <<>>]
    /\ edges = <<>>
    /\ pc = "reading"
    /\ ret = <<>>

Locals ==
    [vertices |-> mesh.vertices, indices |-> mesh.indices, edges |-> edges,
     thrown |-> FALSE]

CurrentLine == file[pos + 1]

Reading == pc = "reading" /\ GetLineOk(fileOpen, file, pos)

Advance(ld) ==
    /\ mesh' = [mesh EXCEPT !.vertices = ld.vertices, !.indices = ld.indices]
    /\ edges' = ld.edges
    /\ pos' = pos + 1
    /\ pc' = IF ld.thrown THEN "thrown" ELSE "reading"
    /\ UNCHANGED <<file, fileOpen, ret>>

ReadVertexLine ==
    /\ Reading
    /\ IsVertexLine(CurrentLine)
    /\ \E u \in [1..3 -> UninitFloats] : Advance(ReadLine(Locals, CurrentLine, u))

ReadFaceLine ==
    /\ Reading
    /\ ~IsVertexLine(CurrentLine) /\ IsFaceLine(CurrentLine)
    /\ ParseFace(SubstrFrom(CurrentLine, 2)).ok
    /\ Advance(ReadLine(Locals, CurrentLine, <<0, 0, 0>>))

\* std::stoul throws out of the loop: nothing is returned
ReadFaceLineThrows ==
    /\ Reading
    /\ ~IsVertexLine(CurrentLine) /\ IsFaceLine(CurrentLine)
    /\ ~ParseFace(SubstrFrom(CurrentLine, 2)).ok
    /\ Advance(ReadLine(Locals, CurrentLine, <<0, 0, 0>>))

ReadOtherLine ==
    /\ Reading
    /\ ~IsVertexLine(CurrentLine) /\ ~IsFaceLine(CurrentLine)
    /\ Advance(ReadLine(Locals, CurrentLine, <<0, 0, 0>>))

\* std::getline fails (end of file, or the stream never opened): flatten the
\* edge set, set the color, return
Return ==
    /\ pc = "reading"
    /\ ~GetLineOk(fileOpen, file, pos)
    /\ mesh' = Finish(Locals)
    /\ ret' = <<mesh'>>
    /\ pc' = "returned"
    /\ UNCHANGED <<file, fileOpen, pos, edges>>

Next ==
    \/ ReadVertexLine
    \/ ReadFaceLine
    \/ ReadFaceLineThrows
    \/ ReadOtherLine
    \/ Return

Spec == Init /\ [][Next]_vars

(***************************************************************************)
(* Properties                                                              *)
(***************************************************************************)

Returned == pc = "returned"

\* the file was opened and loadOBJ has returned its Mesh
Loaded == Returned /\ fileOpen

NumPairs(m) == Len(m.edgeIndices) \div 2

EdgePair(m, k) == <<m.edgeIndices[2 * k - 1], m.edgeIndices[2 * k]>>

\* what the lines were written to say, read off the catalog
IsGoodFace(line) == DescOf(line).kind = "f" /\ ~DescOf(line).malformed

FaceNums(line) == DescOf(line).nums

\* the 0-based directed edges of a face given by its 1-based indices
DirectedEdges(nums) ==
    {<<nums[k] - 1, nums[(k % Len(nums)) + 1] - 1>> : k \in 1..Len(nums)}

UndirectedEdges(nums) ==
    {{e[1], e[2]} : e \in DirectedEdges(nums)}

\* the vertices of a Mesh, one triple per vertex line that was read: also
\* what its uninitialized floats held, where a line left them in place
VertexTriples(m) ==
    [k \in 1..(Len(m.vertices) \div 3) |->
        <<m.vertices[3 * k - 2], m.vertices[3 * k - 1], m.vertices[3 * k]>>]

SameFaces(m1, m2) ==
    /\ m1.indices = m2.indices
    /\ m1.edgeIndices = m2.edgeIndices

\* C1: every index of the returned Mesh, in indices and in edgeIndices, is
\* below the number of vertices, vertices.size() / 3.
C1_IndicesInRange ==
    Returned =>
        LET m == ret[1] IN
        /\ \A i \in 1..Len(m.indices) :
               U32Less(m.indices[i], Len(m.vertices) \div 3)
        /\ \A i \in 1..Len(m.edgeIndices) :
               U32Less(m.edgeIndices[i], Len(m.vertices) \div 3)

\* C2: the pairs of edgeIndices are pairwise distinct as unordered pairs
\* (no pair twice, no pair together with its reverse), and each pair has its
\* smaller index first.
C2_EdgesDistinct ==
    Returned =>
        LET m == ret[1] IN
        /\ Len(m.edgeIndices) = 2 * NumPairs(m)
        /\ \A j, k \in 1..NumPairs(m) :
               j # k =>
                   /\ EdgePair(m, j) # EdgePair(m, k)
                   /\ EdgePair(m, j) # <<EdgePair(m, k)[2], EdgePair(m, k)[1]>>
        /\ \A k \in 1..NumPairs(m) :
               ~U32Less(EdgePair(m, k)[2], EdgePair(m, k)[1])

\* two different lines of the loaded file are faces that traverse one edge
\* in opposite directions
C2_SharedEdgeLoaded ==
    /\ Loaded
    /\ \E i, j \in 1..Len(file) :
           /\ i # j
           /\ IsGoodFace(file[i]) /\ IsGoodFace(file[j])
           /\ Len(FaceNums(file[i])) >= 3 /\ Len(FaceNums(file[j])) >= 3
           /\ \E e \in DirectedEdges(FaceNums(file[i])) :
                  <<e[2], e[1]>> \in DirectedEdges(FaceNums(file[j]))

SwapAdjacent(lines, i) ==
    [k \in 1..Len(lines) |->
        IF k = i THEN lines[i + 1] ELSE IF k = i + 1 THEN lines[i] ELSE lines[k]]

RotateLeft(q) == IF q = <<>> THEN q ELSE Tail(q) \o <<Head(q)>>

\* the file with the tokens of face line i rotated by one
RotateFace(lines, i) ==
    [lines EXCEPT ![i] = FaceText(RotateLeft(DescOf(lines[i]).nums),
                                  RotateLeft(DescOf(lines[i]).styles))]

\* C3: edgeIndices lists the edges in ascending lexicographic order of
\* (min, max); exchanging two neighbouring lines of the file, or rotating the
\* tokens of a face, gives the same edgeIndices; the single face "f 1 2 3"
\* gives [0,1,0,2,1,2].
C3_EdgeOrder ==
    Loaded =>
        LET m == ret[1] IN
        /\ \A k \in 1..(NumPairs(m) - 1) :
               PairLess(EdgePair(m, k), EdgePair(m, k + 1))
        /\ \A i \in 1..(Len(file) - 1) :
               LET other == LoadOBJ(SwapAdjacent(file, i), <<>>) IN
               ~other.threw /\ other.mesh.edgeIndices = m.edgeIndices
        /\ \A i \in 1..Len(file) :
               IsGoodFace(file[i]) =>
                   LET other == LoadOBJ(RotateFace(file, i), <<>>) IN
                   ~other.threw /\ other.mesh.edgeIndices = m.edgeIndices
        /\ file = <<FaceText(<<1, 2, 3>>, Bare(<<1, 2, 3>>))>> =>
               m.edgeIndices = <<0, 1, 0, 2, 1, 2>>

\* two different faces were read one after the other, the later one holding
\* the smaller edges
C3_TwoFacesLoaded ==
    /\ Loaded
    /\ \E i \in 1..(Len(file) - 1) :
           /\ IsGoodFace(file[i]) /\ IsGoodFace(file[i + 1])
           /\ FaceNums(file[i]) = <<4, 5, 6>>
           /\ FaceNums(file[i + 1]) = <<1, 2, 3>>
    /\ NumPairs(ret[1]) >= 6

\* the triples the first n lines of the file were written to produce
RECURSIVE ExpectedTriangles(_)
ExpectedTriangles(n) ==
    IF n = 0 THEN <<>>
    ELSE ExpectedTriangles(n - 1) \o
         (IF IsGoodFace(file[n]) /\ Len(FaceNums(file[n])) >= 3
          THEN <<FaceNums(file[n])[1] - 1, FaceNums(file[n])[2] - 1,
                 FaceNums(file[n])[3] - 1>>
          ELSE <<>>)

NumFacesOfThreeOrMore ==
    Cardinality({i \in 1..Len(file) :
                    IsGoodFace(file[i]) /\ Len(FaceNums(file[i])) >= 3})

\* C4: indices is built face by face in file order: after any number of
\* lines it holds one triple (token0-1, token1-1, token2-1) per face line read
\* that has 3 or more tokens; the Mesh returned holds 3 values per such line.
C4_Triangles ==
    /\ pc # "thrown" => mesh.indices = ExpectedTriangles(pos)
    /\ Loaded =>
           /\ ret[1].indices = ExpectedTriangles(Len(file))
           /\ Len(ret[1].indices) = 3 * NumFacesOfThreeOrMore

\* a quad and then a triangle were loaded
C4_QuadLoaded ==
    /\ Loaded
    /\ \E i \in 1..(Len(file) - 1) :
           /\ IsGoodFace(file[i]) /\ Len(FaceNums(file[i])) = 4
           /\ IsGoodFace(file[i + 1]) /\ Len(FaceNums(file[i + 1])) = 3
    /\ Len(ret[1].indices) = 6

\* C5: when the file cannot be opened, loadOBJ throws nothing, reads nothing
\* and returns a Mesh with empty vertices, indices and edgeIndices and the
\* color (0,0,1).
C5_MissingFile ==
    ~fileOpen =>
        /\ pc # "thrown"
        /\ pos = 0
        /\ Returned =>
               ret = <<[vertices |-> <<>>, indices |-> <<>>,
                        edgeIndices |-> <<>>, color |-> <<0, 0, 1>>]>>

\* loadOBJ has returned for a path that did not open
C5_MissingFileReturned == ~fileOpen /\ Returned /\ Len(file) = MaxLines

\* C6: a file with a malformed 'v ' or 'f ' line never yields a Mesh.
C6_MalformedAborts ==
    Loaded => \A i \in 1..Len(file) : ~DescOf(file[i]).malformed

IsDegenerateFace(line) == IsGoodFace(line) /\ Len(FaceNums(line)) < 3

NotDegenerateFace(line) == ~IsDegenerateFace(line)

\* C7: the Mesh returned is the one the file gives without its face lines of
\* fewer than 3 tokens.
C7_DegenerateSkipped ==
    Loaded =>
        LET without == LoadOBJ(SelectSeq(file, NotDegenerateFace), <<>>) IN
        /\ ~without.threw
        /\ SameFaces(without.mesh, ret[1])
        /\ Len(without.mesh.vertices) = Len(ret[1].vertices)

FaceLines == {i \in 1..Len(file) : DescOf(file[i]).kind = "f"}

VertexLines == {i \in 1..Len(file) : DescOf(file[i]).kind = "v"}

\* every face has 3 or more pairwise distinct indices and no two faces share
\* an undirected edge
DisjointFaces ==
    /\ \A i \in FaceLines :
           /\ IsGoodFace(file[i])
           /\ Len(FaceNums(file[i])) >= 3
           /\ \A j, k \in 1..Len(FaceNums(file[i])) :
                  j # k => FaceNums(file[i])[j] # FaceNums(file[i])[k]
    /\ \A i, j \in FaceLines :
           i # j => UndirectedEdges(FaceNums(file[i])) \cap
                    UndirectedEdges(FaceNums(file[j])) = {}

RECURSIVE TokenCount(_)
TokenCount(n) ==
    IF n = 0 THEN 0
    ELSE TokenCount(n - 1) +
         (IF n \in FaceLines THEN Len(FaceNums(file[n])) ELSE 0)

\* C8: N vertex lines and faces of k_i >= 3 distinct indices that share no
\* edge give vertices.size() = 3N and edgeIndices.size() = 2 * (k_1+...+k_M).
C8_EdgeCount ==
    Loaded /\ DisjointFaces =>
        /\ Len(ret[1].vertices) = 3 * Cardinality(VertexLines)
        /\ Len(ret[1].edgeIndices) = 2 * TokenCount(Len(file))

\* a vertex line and two faces that share no edge were loaded
C8_DisjointFacesLoaded ==
    /\ Loaded /\ DisjointFaces
    /\ Cardinality(VertexLines) >= 1
    /\ Cardinality(FaceLines) >= 2
    /\ \E i \in FaceLines : Len(FaceNums(file[i])) = 4

\* lines that begin neither with "v " nor with "f "
IgnoredLines ==
    { <<>>,
      <<"#", "c">>,
      <<"v", "n", " ", "0", " ", "0", " ", "1">>,
      <<"v", "t", " ", "0", " ", "1">>,
      <<"g", " ", "a">>,
      <<"u", "s", "e", "m", "t", "l", " ", "m">>,
      <<"m", "t", "l", "l", "i", "b", " ", "a">>,
      <<" ", "v", " ", "0", " ", "0", " ", "0">>,
      <<" ", "f", " ", "1", " ", "2", " ", "3">> }

\* judged on the characters: the line does not start with v or f and a blank
IsIgnored(line) ==
    ~(Len(line) >= 2 /\ line[1] \in {"v", "f"} /\ line[2] = " ")

NotIgnored(line) == ~IsIgnored(line)

InsertAt(lines, k, line) ==
    SubSeq(lines, 1, k) \o <<line>> \o SubSeq(lines, k + 1, Len(lines))

\* at any point of the file an ignored line, were it the next one, would
\* leave the loader's locals as they are; and the Mesh returned is the one
\* the file gives without its ignored lines (its vertex lines finding the
\* same content in the uninitialized floats)
C9_SameResult ==
    /\ pc = "reading" =>
           \A o \in IgnoredLines : ReadLine(Locals, o, <<0, 0, 0>>) = Locals
    /\ Loaded =>
           LET without == LoadOBJ(SelectSeq(file, NotIgnored),
                                  VertexTriples(ret[1])) IN
           ~without.threw /\ without.mesh = ret[1]

C9_Frame ==
    (pc = "reading" /\ pos' = pos + 1 /\ IsIgnored(file[pos + 1]))
        => (mesh' = mesh /\ edges' = edges /\ pc' = "reading")

\* C9: reading a line that begins neither with "v " nor with "f " leaves the
\* Mesh and the edge set as they are, wherever in the file it stands, and the
\* Mesh returned is the same as with all such lines removed.
C9_OtherLinesIgnored == [](C9_SameResult) /\ [][C9_Frame]_vars

\* a file with an ignored line between a vertex line and a face was loaded
C9_IgnoredLineLoaded ==
    /\ Loaded
    /\ Len(file) = 3
    /\ DescOf(file[1]).kind = "v"
    /\ IsIgnored(file[2])
    /\ IsGoodFace(file[3])
    /\ Len(ret[1].indices) = 3

\* the file with every well-formed face written in one style
Restyle(lines, style) ==
    [i \in 1..Len(lines) |->
        IF IsGoodFace(lines[i])
        THEN FaceText(FaceNums(lines[i]), [k \in 1..Len(FaceNums(lines[i])) |-> style])
        ELSE lines[i]]

\* C10: only the text before the first '/' of a face token counts: written
\* as p, p/t, p/t/n or p//n, the faces give the same indices and edgeIndices,
\* and the token of position p >= 1 is stored as p - 1.
C10_SlashSuffixIgnored ==
    Loaded =>
        /\ \A style \in Styles :
               LET other == LoadOBJ(Restyle(file, style), <<>>) IN
               ~other.threw /\ SameFaces(other.mesh, ret[1])
        /\ \A i \in 1..Len(file) :
               IsGoodFace(file[i]) =>
                   LET p == ParseFace(SubstrFrom(file[i], 2)) IN
                   /\ p.ok
                   /\ p.face = [k \in 1..Len(FaceNums(file[i])) |->
                                   FaceNums(file[i])[k] - 1]

\* a face written with all three slash forms was loaded next to a bare one
C10_SlashFaceLoaded ==
    /\ Loaded
    /\ \E i, j \in 1..Len(file) :
           /\ IsGoodFace(file[i])
           /\ DescOf(file[i]).styles = <<"p/t/n", "p//n", "p/t", "p">>
           /\ IsGoodFace(file[j])
           /\ DescOf(file[j]).styles = Bare(<<1, 2, 3>>)
    /\ Len(ret[1].indices) = 6

====
